---- MODULE Spec2Model ----
(***************************************************************************)
(* Model of the users list page: the query cache with optimistic status    *)
(* mutations (src/src/hooks/useUsers.ts) and the view-state synchronizer   *)
(* of src/src/pages/UsersPage/UsersPage.tsx.                               *)
(*                                                                         *)
(* Spec      the query cache and the mutation engine of useUsers.ts as the *)
(*           page drives them: one status mutation at a time, the data     *)
(*           source answers a fetch when the response arrives              *)
(* RaceSpec  the same engine with the hook called again while a mutation   *)
(*           is pending, and answers computed before they arrive           *)
(* ViewSpec  the view state of UsersPage, its debounced search and its URL *)
(*           parameters; the cache is left as it is after the mount        *)
(* ViewFairSpec  the search field, the status filter and the pager of the  *)
(*           view with the debounce timer running out when scheduled       *)
(* ActionsSpec  the toggles and the confirmation dialogs of the rows, and  *)
(*           the status mutations they invoke                              *)
(* StorageSpec  the column visibility and its item in the browser store,   *)
(*           from any stored item, with writes that may fail               *)
(* BoundarySpec  ErrorBoundary around the page: renders of the page that   *)
(*           throw, the fallback and its Try Again button                  *)
(* GridSpec  the cells of DynamicGrid: renderCellByType on the values a    *)
(*           cell may hold, for every column type                          *)
(***************************************************************************)
EXTENDS Integers, Sequences, FiniteSets, TLC

\* ------------------------------------------------------------------ bounds

\* fetches that queries may wait for at the same time
MaxInflight == 2
\* status mutations invoked in one run of Spec, one at a time
MaxMutations == 1
\* status mutations invoked in one run of RaceSpec, where they may overlap
MaxRace == 2
\* status mutations invoked in one run of ActionsSpec, from the rows' controls
MaxToggles == 2
\* the last page index the pagination control of the grid offers
MaxPageIndex == 10
\* the elements of a cell value that is an array
MaxGroups == 2

VARIABLES
    \* --- the data source and the query cache (useUsers.ts)
    db,          \* the data source: userId -> status
    queries,     \* the query cache: one entry per list key
    observed,    \* the key the page's useUsers observer is subscribed to
    requests,    \* fetchUsers calls in flight that a query waits for
    orphans,     \* keys with a fetchUsers call in flight that no query waits for
    mutations,   \* status mutations in flight, with their onMutate context
    invoked,     \* the number of status mutations invoked so far
    lastOp,      \* the handler that ran last, the key or mutation it was about
                 \* and what it did
    \* --- the view state of UsersPage (UsersPage.tsx 47-77)
    searchParams,          \* the URL parameters
    searchQuery,           \* the text of the search field
    debouncedSearchQuery,  \* useDebounce(searchQuery, 300)
    timer,                 \* an emission of useDebounce is scheduled
    statusFilter,
    pagination,            \* {pageIndex, pageSize}
    sorting,               \* the sorting state of the grid: [{id, desc}]
    columnVisibility,      \* the columns hidden in the grid
    \* --- the grid (DynamicGrid.tsx)
    cell,                  \* the cell the grid rendered last: its value, its
                           \* column and what renderCellByType returned
    \* --- the browser store and the error boundary around the page
    localStorage,          \* the item under 'users-table-column-visibility'
    boundary,              \* the state of ErrorBoundary: hasError, error, errorInfo
    \* --- the rows' actions (UserActions.tsx)
    confirmDialogOpen      \* the users whose row has its confirmation dialog open

cacheVars == <<db, queries, observed, requests, orphans, mutations, invoked>>

pageVars == <<searchParams, searchQuery, debouncedSearchQuery, timer, statusFilter,
              pagination, sorting, columnVisibility, cell, localStorage, boundary>>

viewVars == <<pageVars, confirmDialogOpen>>

vars == <<db, queries, observed, requests, orphans, mutations, invoked, lastOp,
          searchParams, searchQuery, debouncedSearchQuery, timer, statusFilter,
          pagination, sorting, columnVisibility, cell, localStorage, boundary,
          confirmDialogOpen>>

\* ------------------------------------------------------- values and records

Statuses == {"active", "inactive"}
UserIds == {"u1", "u2"}
UserOrder == <<"u1", "u2">>
UserName(u) == IF u = "u1" THEN "Ann" ELSE "Bob"

\* an optional value: <<>> is undefined, <<x>> is x
Undefined == <<>>
Some(x) == <<x>>
IsDefined(d) == d # <<>>
Get(d) == d[1]

\* PaginationParams of the list request (UsersPage.tsx 80-85)
ListParams(page, pageSize, query, status) ==
    [page |-> page, pageSize |-> pageSize, query |-> query, status |-> status]

\* userQueryKeys
AllKey == <<"users">>
ListKey(params) == <<"users", "list", params>>

\* the keys of the family the page reads in this model: the two status filters
\* "all" and "active" of the first page
Keys == {ListKey(ListParams(1, 10, "", "all")), ListKey(ListParams(1, 10, "", "active"))}

\* queryKey prefix match of a filter {queryKey: prefix}
MatchesKey(prefix, key) ==
    /\ Len(prefix) <= Len(key)
    /\ \A i \in 1..Len(prefix) : key[i] = prefix[i]

Family == {k \in Keys : MatchesKey(AllKey, k)}

\* ------------------------------------------------------- the data source

User(u, s) == [userId |-> u, name |-> UserName(u), status |-> s]

\* fetchUsers(params) against the data source d: the users that pass the
\* status filter, in the data source's order, with their count
FetchUsers(d, key) ==
    LET params == key[3]
        pass(u) == /\ params.status = "all" \/ d[u] = params.status
                   /\ params.query = "" \/ params.query = UserName(u)
        all == [i \in 1..Len(UserOrder) |-> User(UserOrder[i], d[UserOrder[i]])]
        hit == SelectSeq(all, LAMBDA r : pass(r.userId))
        from == (params.page - 1) * params.pageSize + 1
        to == IF params.page * params.pageSize < Len(hit)
              THEN params.page * params.pageSize ELSE Len(hit)
    IN [data |-> [users |-> SubSeq(hit, from, to), totalCount |-> Len(hit)]]

\* ------------------------------------------------------- the query cache

\* the state of one query of the cache; retryer is the request whose result
\* the query waits for (0: fetchStatus idle); status is the status the query
\* had when its fetch began, which a cancelled fetch reverts to
NoQuery ==
    [exists |-> FALSE, data |-> Undefined, isInvalidated |-> FALSE,
     status |-> "pending", retryer |-> 0]

\* the status an observer sees: a first fetch in flight is pending
QueryStatus(e) ==
    IF ~IsDefined(e.data) /\ e.retryer # 0 THEN "pending" ELSE e.status

\* a fetchUsers call in flight; dropped: a mutation was invoked while it was
\* in flight, or a newer fetch of its key superseded it
NoRequest == [active |-> FALSE, key |-> AllKey, dropped |-> FALSE, response |-> Undefined]

Request(k) == [active |-> TRUE, key |-> k, dropped |-> FALSE, response |-> Undefined]

Op(op, key, m, note) == [op |-> op, key |-> key, m |-> m, note |-> note]

NoSnapshot == [k \in Keys |-> [present |-> FALSE, data |-> Undefined]]

NoMutation ==
    [state |-> "idle", userId |-> "u1", status |-> "active",
     previousUsers |-> NoSnapshot, applied |-> FALSE,
     older |-> {}, overtaken |-> {}]

RequestIds == 1..MaxInflight
MutationIds == 1..MaxRace

\* the id of a request that no query waits for: no retryer carries it
OrphanId == MaxInflight + 1

FreeIds == {i \in RequestIds : ~requests[i].active}
NewId == CHOOSE i \in FreeIds : \A j \in FreeIds : i <= j

Pending == {m \in MutationIds : mutations[m].state = "pending"}

\* Query.fetch: remember the state to revert to, wait for request id
StartFetch(e, id) == [e EXCEPT !.retryer = id]

\* the result of request id arrives: written only by the query's current fetch
FetchSuccess(e, id, result) ==
    IF e.retryer = id
    THEN [e EXCEPT !.data = result, !.isInvalidated = FALSE,
                   !.status = "success", !.retryer = 0]
    ELSE e

\* a failure that empties the entry
FetchFailureClears(e, id) ==
    IF e.retryer = id
    THEN [e EXCEPT !.data = Undefined, !.isInvalidated = TRUE, !.status = "error",
                   !.retryer = 0]
    ELSE e

\* request id fails: an error state, the data kept and flagged
FetchFailure(e, id) ==
    IF e.retryer = id
    THEN [e EXCEPT !.isInvalidated = TRUE, !.status = "error", !.retryer = 0]
    ELSE e

\* a reader that never joins the fetch in flight
ShouldFetchAlways(e, stale) == TRUE

\* useQuery (useUsers.ts 15-18): does a subscribing observer start a fetch?
\* A fetch in flight is joined; stale is whether the staleTime has elapsed.
ShouldFetch(e, stale) ==
    /\ e.retryer = 0
    /\ ~IsDefined(e.data) \/ e.isInvalidated \/ stale

\* a mutation that leaves the fetches in flight alone
CancelQueryNoop(e) == e

\* cancelQueries({queryKey}) (useUsers.ts 36): every fetch in flight of the
\* family is cancelled and its query reverted; the request's later result is
\* dropped because the query no longer waits for it
CancelQuery(e) ==
    IF e.retryer = 0 THEN e
    ELSE [e EXCEPT !.retryer = 0]

CancelQueries(q, prefix) ==
    [k \in Keys |-> IF q[k].exists /\ MatchesKey(prefix, k) THEN CancelQuery(q[k]) ELSE q[k]]

\* getQueriesData({queryKey}) (useUsers.ts 39): [queryKey, data] of every
\* query of the family, data undefined included
GetQueriesData(q, prefix) ==
    [k \in Keys |-> IF q[k].exists /\ MatchesKey(prefix, k)
                    THEN [present |-> TRUE, data |-> q[k].data]
                    ELSE [present |-> FALSE, data |-> Undefined]]

\* setQueryData(queryKey, data) (useUsers.ts 65): a manual write replaces the
\* data and clears the invalidated flag; undefined data is not written
SetQueryData(e, d) ==
    IF ~IsDefined(d) THEN e
    ELSE [e EXCEPT !.exists = TRUE, !.data = d, !.isInvalidated = FALSE,
                   !.status = "success"]

\* an updater that writes the status into every record
OptimisticUpdateAll(old, userId, status) ==
    [old EXCEPT !.data.users = [i \in DOMAIN @ |-> [@[i] EXCEPT !.status = status]]]

\* the updater of onMutate (useUsers.ts 42-54) on a defined value
OptimisticUpdate(old, userId, status) ==
    [old EXCEPT !.data.users =
        [i \in DOMAIN @ |-> IF @[i].userId = userId
                            THEN [@[i] EXCEPT !.status = status]
                            ELSE @[i]]]

\* setQueriesData({queryKey}, updater) (useUsers.ts 42-54)
SetQueriesData(q, prefix, userId, status) ==
    [k \in Keys |->
        IF q[k].exists /\ MatchesKey(prefix, k)
        THEN SetQueryData(q[k],
                 IF IsDefined(q[k].data)
                 THEN Some(OptimisticUpdate(Get(q[k].data), userId, status))
                 ELSE q[k].data)
        ELSE q[k]]

\* a rollback that restores the observed entry only
RollbackObserved(q, previousUsers) ==
    [k \in Keys |-> IF previousUsers[k].present /\ k = observed
                    THEN SetQueryData(q[k], previousUsers[k].data)
                    ELSE q[k]]

\* onError (useUsers.ts 61-68): every [queryKey, data] of the context is
\* written back
Rollback(q, previousUsers) ==
    [k \in Keys |-> IF previousUsers[k].present
                    THEN SetQueryData(q[k], previousUsers[k].data)
                    ELSE q[k]]

\* an invalidation that matches the key exactly instead of by prefix
MarkInvalidatedExact(q, prefix) ==
    [k \in Keys |-> IF q[k].exists /\ k = prefix
                    THEN [q[k] EXCEPT !.isInvalidated = TRUE]
                    ELSE q[k]]

\* invalidateQueries marks every query of the family
MarkInvalidated(q, prefix) ==
    [k \in Keys |-> IF q[k].exists /\ MatchesKey(prefix, k)
                    THEN [q[k] EXCEPT !.isInvalidated = TRUE]
                    ELSE q[k]]

\* invalidateQueries refetches the active query with cancelRefetch: a fetch in
\* flight of a query that has data is replaced by a new one, a first fetch in
\* flight is joined
Refetches(e) == e.exists /\ (e.retryer = 0 \/ IsDefined(e.data))

\* onSettled (useUsers.ts 71-73): invalidateQueries({queryKey: ['users']});
\* id is the request of the refetch
InvalidateQueries(q, obs, id) ==
    LET marked == MarkInvalidated(q, AllKey)
    IN [k \in Keys |-> IF k = obs /\ Refetches(marked[k])
                       THEN StartFetch(marked[k], id)
                       ELSE marked[k]]

\* the fetches in flight once the queries are q: a request its query no
\* longer waits for is an orphan
Waited(q, reqs) ==
    [r \in RequestIds |->
        IF reqs[r].active /\ q[reqs[r].key].retryer = r THEN reqs[r] ELSE NoRequest]

Orphaned(q, reqs) ==
    {reqs[r].key : r \in {i \in RequestIds : reqs[i].active /\ q[reqs[i].key].retryer # i}}

\* the request of onSettled's refetch of the active query: a superseded
\* request leaves its place to the new one
RefetchId(q, obs) == IF q[obs].retryer # 0 THEN q[obs].retryer ELSE NewId

RefetchRequests(q, obs) ==
    IF Refetches(q[obs])
    THEN [requests EXCEPT ![RefetchId(q, obs)] = Request(obs)]
    ELSE requests

Superseded(q, obs) ==
    IF Refetches(q[obs]) /\ q[obs].retryer # 0 THEN {obs} ELSE {}

\* ------------------------------------------------------- the view state

\* a number of the page's arithmetic: an integer or NaN
Num(n) == [nan |-> FALSE, n |-> n]
NaN == [nan |-> TRUE, n |-> 0]
Add(x, k) == IF x.nan THEN NaN ELSE Num(x.n + k)

\* a string that is read as a number is a sequence of characters
DigitChars == <<"0", "1", "2", "3", "4", "5", "6", "7", "8", "9">>
IsDigit(c) == \E i \in 1..Len(DigitChars) : DigitChars[i] = c
DigitValue(c) == (CHOOSE i \in 1..Len(DigitChars) : DigitChars[i] = c) - 1

\* Number.prototype.toString of a non-negative integer
RECURSIVE Digits(_)
Digits(n) ==
    IF n < 10 THEN <<DigitChars[n + 1]>>
    ELSE Append(Digits(n \div 10), DigitChars[(n % 10) + 1])

\* (x).toString() (UsersPage.tsx 92)
ToStr(x) ==
    IF x.nan THEN <<"N", "a", "N">>
    ELSE IF x.n < 0 THEN <<"-">> \o Digits(0 - x.n)
    ELSE Digits(x.n)

\* the longest prefix of digits
RECURSIVE DigitPrefix(_)
DigitPrefix(s) ==
    IF s = <<>> \/ ~IsDigit(Head(s)) THEN <<>>
    ELSE <<Head(s)>> \o DigitPrefix(Tail(s))

RECURSIVE DigitsValue(_)
DigitsValue(s) ==
    IF s = <<>> THEN 0
    ELSE 10 * DigitsValue(SubSeq(s, 1, Len(s) - 1)) + DigitValue(s[Len(s)])

\* parseInt(s) (UsersPage.tsx 56): an optional sign, then the longest prefix
\* of digits; NaN when there is none
ParseInt(s) ==
    LET signed == s # <<>> /\ Head(s) \in {"-", "+"}
        body == DigitPrefix(IF signed THEN Tail(s) ELSE s)
    IN IF body = <<>> THEN NaN
       ELSE IF signed /\ Head(s) = "-" THEN Num(0 - DigitsValue(body))
       ELSE Num(DigitsValue(body))

\* pageSize of the initial pagination (UsersPage.tsx 57)
DefaultPageSize == 10

\* the page sizes the pagination control of the grid offers
PageSizes == {DefaultPageSize, 2 * DefaultPageSize}

SearchTexts == {"", "a", "ab"}
StatusFilters == {"all", "active", "inactive"}
SortIds == {"name", "email"}
ColumnKeys == {"email"}

\* MRT_SortingState: at most one entry per column
SortEntries == [id : SortIds, desc : BOOLEAN]
Sortings ==
    {<<>>} \cup {<<a>> : a \in SortEntries}
           \cup {p \in SortEntries \X SortEntries : p[1].id # p[2].id}

\* MRT_PaginationState: the paginations the grid hands to the page
Paginations ==
    {[pageIndex |-> Num(i), pageSize |-> size] : i \in 0..MaxPageIndex, size \in PageSizes}

\* URLSearchParams: get(name) is null (Undefined) for a name that is absent
Params(page, status, search, sort, order) ==
    [page |-> page, status |-> status, search |-> search, sort |-> sort, order |-> order]

\* a value that is neither null nor the empty string
Truthy(v, empty) == IsDefined(v) /\ Get(v) # empty

\* the view state of a render
View(query, debounced, status, pag, sort, hidden) ==
    [searchQuery |-> query, debouncedSearchQuery |-> debounced, statusFilter |-> status,
     pagination |-> pag, sorting |-> sort, columnVisibility |-> hidden]

\* an initialisation that reads the page without asking whether it is there,
\* and takes a sort from the order alone
DecodeUnguarded(url, hidden) ==
    LET search == IF Truthy(url.search, "") THEN Get(url.search) ELSE ""
    IN View(search, search,
            IF Truthy(url.status, "") THEN Get(url.status) ELSE "all",
            [pageIndex |-> Add(ParseInt(IF IsDefined(url.page) THEN Get(url.page) ELSE <<>>),
                               0 - 1),
             pageSize |-> DefaultPageSize],
            IF Truthy(url.sort, "") \/ IsDefined(url.order)
            THEN <<[id |-> IF Truthy(url.sort, "") THEN Get(url.sort) ELSE "name",
                    desc |-> IsDefined(url.order) /\ Get(url.order) = "desc"]>>
            ELSE <<>>,
            hidden)

\* the initial state of the hooks (UsersPage.tsx 50-74, 77); hidden is the
\* column visibility useLocalStorage reads
Decode(url, hidden) ==
    LET search == IF Truthy(url.search, "") THEN Get(url.search) ELSE ""
    IN View(search, search,
            IF Truthy(url.status, "") THEN Get(url.status) ELSE "all",
            [pageIndex |-> IF Truthy(url.page, <<>>)
                           THEN Add(ParseInt(Get(url.page)), 0 - 1)
                           ELSE Num(0),
             pageSize |-> DefaultPageSize],
            IF Truthy(url.sort, "")
            THEN <<[id |-> Get(url.sort),
                    desc |-> IsDefined(url.order) /\ Get(url.order) = "desc"]>>
            ELSE <<>>,
            hidden)

\* the page written to the URL as it would be without the shift to 1-based
PageParamZeroBased(pageIndex) == ToStr(pageIndex)

\* params.page (UsersPage.tsx 92)
PageParam(pageIndex) == ToStr(Add(pageIndex, 1))

\* params that carry the text of the search field itself
EncodeRaw(v) ==
    Params(Some(PageParam(v.pagination.pageIndex)),
           IF v.statusFilter # "all" THEN Some(v.statusFilter) ELSE Undefined,
           IF v.searchQuery # "" THEN Some(v.searchQuery) ELSE Undefined,
           IF Len(v.sorting) > 0 THEN Some(v.sorting[1].id) ELSE Undefined,
           IF Len(v.sorting) > 0
           THEN Some(IF v.sorting[1].desc THEN "desc" ELSE "asc")
           ELSE Undefined)

\* the params of the URL sync effect (UsersPage.tsx 88-108)
Encode(v) ==
    Params(Some(PageParam(v.pagination.pageIndex)),
           IF v.statusFilter # "all" THEN Some(v.statusFilter) ELSE Undefined,
           IF v.debouncedSearchQuery # "" THEN Some(v.debouncedSearchQuery) ELSE Undefined,
           IF Len(v.sorting) > 0 THEN Some(v.sorting[1].id) ELSE Undefined,
           IF Len(v.sorting) > 0
           THEN Some(IF v.sorting[1].desc THEN "desc" ELSE "asc")
           ELSE Undefined)

\* a key that leaves the status filter out
QueryKeyNoStatus(v) ==
    ListKey(ListParams(Add(v.pagination.pageIndex, 1), v.pagination.pageSize,
                       v.debouncedSearchQuery, "all"))

\* the key of the list read of a render (UsersPage.tsx 80-85, useUsers.ts 8, 16)
QueryKey(v) ==
    ListKey(ListParams(Add(v.pagination.pageIndex, 1), v.pagination.pageSize,
                       v.debouncedSearchQuery, v.statusFilter))

\* the view state of the current render
CurrentView ==
    View(searchQuery, debouncedSearchQuery, statusFilter, pagination, sorting,
         columnVisibility)

\* the URLs the page is opened with
InitialUrls ==
    {Params(page, status, search, sort, order) :
        page \in {Undefined, Some(<<>>), Some(<<"1">>), Some(<<"2">>), Some(<<"0">>),
                  Some(<<"-", "1">>), Some(<<"1", "2">>), Some(<<"2", "x">>),
                  Some(<<"x">>)},
        status \in {Undefined, Some("inactive"), Some("all"), Some(""), Some("foo")},
        search \in {Undefined, Some("a"), Some("")},
        sort \in {Undefined, Some("name"), Some("")},
        order \in {Undefined, Some("desc"), Some("asc")}}

\* ------------------------------------------------------- the cells of the grid

\* the values of a cell (value: unknown, DynamicGrid.tsx 37)
JsNull == [t |-> "null"]
JsUndefined == [t |-> "undefined"]
JsString(s) == [t |-> "string", s |-> s]
JsNumber(n) == [t |-> "number", n |-> n]
JsArray(items) == [t |-> "array", items |-> items]

\* a group of a user: {groupId, groupName} (DynamicGrid.tsx 60, 69-70)
Group(groupId, groupName) ==
    [t |-> "object", groupId |-> JsString(groupId), groupName |-> JsString(groupName)]

Groups == {Group("g1", "Admins"), Group("g2", "Editors")}

\* what an array in a cell may hold: groups, null, a text
CellItems == Groups \cup {JsNull, JsString("x")}

CellValues ==
    {JsNull, JsUndefined, JsNumber(0), JsNumber(5), Group("g1", "Admins")}
    \cup {JsString(s) : s \in {"", "Ann", "active", "inactive", "2024-01-15"}}
    \cup {JsArray(items) : items \in UNION {[1..n -> CellItems] : n \in 0..MaxGroups}}

\* columnMeta.type (DynamicGrid.tsx 41-79); "link" is a type without a case
ColumnTypes == {"string", "badge", "date", "chiplist", "link"}

\* !value is false (DynamicGrid.tsx 61)
JsTruthy(v) ==
    /\ v.t \notin {"null", "undefined"}
    /\ v.t = "string" => v.s # ""
    /\ v.t = "number" => v.n # 0

\* value.length === 0 (DynamicGrid.tsx 61)
LengthIsZero(v) ==
    \/ v.t = "array" /\ v.items = <<>>
    \/ v.t = "string" /\ v.s = ""

\* object.name of a value that is neither null nor undefined
\* (DynamicGrid.tsx 69-70)
GetProp(v, name) == IF name \in DOMAIN v \ {"t"} THEN v[name] ELSE JsUndefined

\* a TypeError raised while the cell renders
TypeError(message) == [node |-> "TypeError", message |-> message]

\* <Chip key label color /> (DynamicGrid.tsx 46-51, 68-73)
Chip(key, label, color) == [node |-> "Chip", key |-> key, label |-> label, color |-> color]

\* <span>No groups</span> (DynamicGrid.tsx 62)
NoGroups == [node |-> "span", text |-> "No groups"]

\* a chiplist that reads the id and the name of a group
RenderChiplistByName(value) ==
    IF ~JsTruthy(value) \/ LengthIsZero(value) THEN NoGroups
    ELSE IF value.t # "array" THEN TypeError("groups.map is not a function")
    ELSE IF \E i \in DOMAIN value.items : value.items[i].t \in {"null", "undefined"}
    THEN TypeError("Cannot read properties of null (reading 'id')")
    ELSE [node |-> "Box",
          children |-> [i \in DOMAIN value.items |->
                           Chip(GetProp(value.items[i], "id"),
                                GetProp(value.items[i], "name"), "default")]]

\* case 'chiplist' (DynamicGrid.tsx 58-76)
RenderChiplist(value) ==
    IF ~JsTruthy(value) \/ LengthIsZero(value) THEN NoGroups
    ELSE IF value.t # "array" THEN TypeError("groups.map is not a function")
    ELSE IF \E i \in DOMAIN value.items : value.items[i].t \in {"null", "undefined"}
    THEN TypeError("Cannot read properties of null (reading 'groupId')")
    ELSE [node |-> "Box",
          children |-> [i \in DOMAIN value.items |->
                           Chip(GetProp(value.items[i], "groupId"),
                                GetProp(value.items[i], "groupName"), "default")]]

\* formatDate(value, format) of '@/utils': a date-like text is formatted,
\* anything else gives the placeholder
FormatDate(value) ==
    IF value = JsString("2024-01-15") THEN [node |-> "text", text |-> <<"Jan 15, 2024">>]
    ELSE [node |-> "text", text |-> <<"-">>]

\* String(value) of a value that is not an array, as the pieces of the text
ScalarText(v) ==
    CASE v.t = "null" -> <<"null">>
      [] v.t = "undefined" -> <<"undefined">>
      [] v.t = "string" -> IF v.s = "" THEN <<>> ELSE <<v.s>>
      [] v.t = "number" -> Digits(v.n)
      [] OTHER -> <<"[object Object]">>

\* Array.prototype.join(','): null and undefined elements are empty
RECURSIVE JoinTexts(_)
JoinTexts(items) ==
    LET text(x) == IF x.t \in {"null", "undefined"} THEN <<>> ELSE ScalarText(x)
    IN IF items = <<>> THEN <<>>
       ELSE IF Len(items) = 1 THEN text(items[1])
       ELSE text(items[1]) \o <<",">> \o JoinTexts(Tail(items))

\* String(value) (DynamicGrid.tsx 79)
StringOf(v) == IF v.t = "array" THEN JoinTexts(v.items) ELSE ScalarText(v)

\* renderCellByType(value, columnMeta) (DynamicGrid.tsx 36-81)
RenderCellByType(value, columnMeta) ==
    CASE columnMeta.type = "string" -> [node |-> "value", value |-> value]
      [] columnMeta.type = "badge" ->
            Chip(JsUndefined, value,
                 IF value = JsString("active") THEN "success" ELSE "default")
      [] columnMeta.type = "date" -> FormatDate(value)
      [] columnMeta.type = "chiplist" -> RenderChiplist(value)
      [] OTHER -> [node |-> "text", text |-> StringOf(value)]

\* no cell rendered yet
NoCell == [value |-> JsUndefined, columnMeta |-> [type |-> "none"], result |-> [node |-> "none"]]

\* ------------------------------------------- the store and the error boundary

\* JSON.stringify of a column visibility (UsersPage.tsx 286): the text as its
\* tokens, one "key: false" entry per hidden column
RECURSIVE JsonEntries(_)
JsonEntries(hidden) ==
    IF hidden = {} THEN <<>>
    ELSE LET key == CHOOSE k \in hidden : TRUE
             rest == JsonEntries(hidden \ {key})
         IN <<key, ":", "false">> \o (IF rest = <<>> THEN <<>> ELSE <<",">> \o rest)

JsonStringify(hidden) == <<"{">> \o JsonEntries(hidden) \o <<"}">>

\* JSON.parse(item) (UsersPage.tsx 275): the value, or a SyntaxError
JsonParse(text) ==
    IF \E hidden \in SUBSET ColumnKeys : JsonStringify(hidden) = text
    THEN [ok |-> TRUE, value |-> CHOOSE hidden \in SUBSET ColumnKeys : JsonStringify(hidden) = text]
    ELSE [ok |-> FALSE, value |-> {}]

\* the store: denied when the browser refuses access to it, and the item
Store(denied, item) == [denied |-> denied, item |-> item]
EmptyStore == Store(FALSE, Undefined)
Stored(hidden) == Store(FALSE, Some(JsonStringify(hidden)))

\* the items a browser may hold under the key: none, the empty text, a saved
\* visibility, a text cut short, a text of another shape
StoredItems ==
    {Undefined, Some(<<>>), Some(<<"{", "email">>), Some(<<"[", "]", "x">>)}
    \cup {Some(JsonStringify(hidden)) : hidden \in SUBSET ColumnKeys}

Stores == {Store(denied, item) : denied \in BOOLEAN, item \in StoredItems}

\* whether reading the store fails: getItem raises or JSON.parse does
ReadFails(store) ==
    \/ store.denied
    \/ Truthy(store.item, <<>>) /\ ~JsonParse(Get(store.item)).ok

\* an initialiser without the try: a failure of the read leaves the component
UseLocalStorageInitUnguarded(store, defaultValue) ==
    IF ReadFails(store) THEN [threw |-> TRUE, value |-> defaultValue]
    ELSE IF ~Truthy(store.item, <<>>) THEN [threw |-> FALSE, value |-> defaultValue]
    ELSE [threw |-> FALSE, value |-> JsonParse(Get(store.item)).value]

\* the initialiser of useLocalStorage (UsersPage.tsx 272-280)
UseLocalStorageInit(store, defaultValue) ==
    IF store.denied THEN [threw |-> FALSE, value |-> defaultValue]
    ELSE IF ~Truthy(store.item, <<>>) THEN [threw |-> FALSE, value |-> defaultValue]
    ELSE IF JsonParse(Get(store.item)).ok
    THEN [threw |-> FALSE, value |-> JsonParse(Get(store.item)).value]
    ELSE [threw |-> FALSE, value |-> defaultValue]

\* the state of ErrorBoundary (part_001 36-40), and after an error of the
\* child tree (part_001 42-59)
NoError == [hasError |-> FALSE, error |-> Undefined, errorInfo |-> Undefined]
Derived(error) == [hasError |-> TRUE, error |-> Some(error), errorInfo |-> Undefined]
Caught(error) == [hasError |-> TRUE, error |-> Some(error), errorInfo |-> Some("stack")]

\* ------------------------------------------------------- the operations

InitKey == ListKey(ListParams(1, 10, "", "all"))

\* the cache when the page has mounted: its observer fetches the first key
CacheMounted ==
    /\ db = [u \in UserIds |-> "active"]
    /\ observed = InitKey
    /\ queries = [k \in Keys |-> IF k = InitKey
                                 THEN StartFetch([NoQuery EXCEPT !.exists = TRUE], 1)
                                 ELSE NoQuery]
    /\ requests = [i \in RequestIds |-> IF i = 1
                                        THEN Request(InitKey)
                                        ELSE NoRequest]
    /\ orphans = {}
    /\ mutations = [m \in MutationIds |-> NoMutation]
    /\ invoked = 0

CacheInit ==
    /\ CacheMounted
    /\ lastOp = Op("mount", InitKey, 0, "fetch")

\* the page has mounted on url: the hooks are initialised and the URL sync
\* effect has run
ViewInit(url, store) ==
    LET read == UseLocalStorageInit(store, {})
        v == Decode(url, read.value)
    IN /\ localStorage = store
       /\ boundary = (IF read.threw THEN Caught("read") ELSE NoError)
       /\ confirmDialogOpen = {}
       /\ searchQuery = v.searchQuery
       /\ debouncedSearchQuery = v.debouncedSearchQuery
       /\ timer = FALSE
       /\ statusFilter = v.statusFilter
       /\ pagination = v.pagination
       /\ sorting = v.sorting
       /\ columnVisibility = v.columnVisibility
       /\ searchParams = Encode(v)
       /\ cell = NoCell

EmptyUrl == Params(Undefined, Undefined, Undefined, Undefined, Undefined)

Init == CacheInit /\ ViewInit(EmptyUrl, EmptyStore)

\* a render of useUsers(params) with the params of key k: the observer
\* subscribes to k and fetches it unless a fetch is in flight or the data is
\* fresh
UseUsers(k, stale) ==
    LET e == IF queries[k].exists THEN queries[k] ELSE [NoQuery EXCEPT !.exists = TRUE]
        fetch == ShouldFetch(e, stale)
    IN /\ fetch => FreeIds # {}
       /\ queries' = [queries EXCEPT ![k] = IF fetch THEN StartFetch(e, NewId) ELSE e]
       /\ requests' = IF fetch
                      THEN [requests EXCEPT ![NewId] = Request(k)]
                      ELSE requests
       /\ observed' = k
       /\ lastOp' = Op("useUsers", k, 0,
                       IF fetch THEN "fetch" ELSE IF e.retryer # 0 THEN "join" ELSE "fresh")
       /\ UNCHANGED <<db, orphans, mutations, invoked>>
       /\ UNCHANGED viewVars

\* the data source answers request r from its current state; the answer is
\* on its way
ServerRead(r) ==
    /\ requests[r].active
    /\ ~IsDefined(requests[r].response)
    /\ requests' = [requests EXCEPT ![r].response = Some(FetchUsers(db, requests[r].key))]
    /\ lastOp' = Op("serverRead", requests[r].key, 0, "")
    /\ UNCHANGED <<db, queries, observed, orphans, mutations, invoked>>
    /\ UNCHANGED viewVars

\* the answer to request r: the one on its way, or the data source's now
Response(r) ==
    IF IsDefined(requests[r].response)
    THEN requests[r].response
    ELSE Some(FetchUsers(db, requests[r].key))

\* the promise of fetchUsers resolves with the data source's answer
FetchResolve(r) ==
    /\ requests[r].active
    /\ queries' = [queries EXCEPT ![requests[r].key] = FetchSuccess(@, r, Response(r))]
    /\ requests' = [requests EXCEPT ![r] = NoRequest]
    /\ lastOp' = Op("fetchResolve", requests[r].key, 0,
                    IF requests[r].dropped THEN "dropped" ELSE "live")
    /\ UNCHANGED <<db, observed, orphans, mutations, invoked>>
    /\ UNCHANGED viewVars

\* the promise of fetchUsers rejects
FetchReject(r) ==
    /\ requests[r].active
    /\ queries' = [queries EXCEPT ![requests[r].key] = FetchFailure(@, r)]
    /\ requests' = [requests EXCEPT ![r] = NoRequest]
    /\ lastOp' = Op("fetchReject", requests[r].key, 0,
                    IF requests[r].dropped THEN "dropped" ELSE "live")
    /\ UNCHANGED <<db, observed, orphans, mutations, invoked>>
    /\ UNCHANGED viewVars

\* the promise of a fetchUsers call that no query waits for resolves
OrphanResolve(k) ==
    /\ k \in orphans
    /\ queries' = [queries EXCEPT ![k] = FetchSuccess(@, OrphanId, Some(FetchUsers(db, k)))]
    /\ orphans' = orphans \ {k}
    /\ lastOp' = Op("fetchResolve", k, 0, "dropped")
    /\ UNCHANGED <<db, observed, requests, mutations, invoked>>
    /\ UNCHANGED viewVars

\* the promise of a fetchUsers call that no query waits for rejects
OrphanReject(k) ==
    /\ k \in orphans
    /\ queries' = [queries EXCEPT ![k] = FetchFailure(@, OrphanId)]
    /\ orphans' = orphans \ {k}
    /\ lastOp' = Op("fetchReject", k, 0, "dropped")
    /\ UNCHANGED <<db, observed, requests, mutations, invoked>>
    /\ UNCHANGED viewVars

\* the rows of the table: the users of the observed query's data
\* (UsersPage.tsx 159-168)
UsersWithActions ==
    IF IsDefined(queries[observed].data)
    THEN Get(queries[observed].data).data.users
    ELSE <<>>

\* what the page renders for the observed query (UsersPage.tsx 170-189): the
\* error view with its retry action while the query holds an error
PageView ==
    IF QueryStatus(queries[observed]) = "error"
    THEN [shows |-> "ErrorFallback", onRetry |-> "reload"]
    ELSE [shows |-> "DynamicGrid", onRetry |-> ""]

\* the status the toggle of a row asks for (UserActions.tsx 40-53)
ToggledStatus(user) == IF user.status = "active" THEN "inactive" ELSE "active"

\* isPending of the one useUpdateUserStatus hook of the page (UsersPage.tsx
\* 111), with one write at a time
IsUpdating == Pending # {}

\* rows that keep their toggle while a write is pending
ToggleDisabledNever(user) == FALSE

\* whether the row of a user shows the spinner in place of its toggle: every
\* row gets the page's isUpdating (UsersPage.tsx 165, UserActions.tsx 59-66)
ToggleDisabled(user) == IsUpdating

\* handleToggleStatus(userId, newStatus) from the row of a user: mutate, that
\* is onMutate (useUsers.ts 34-58), then the write is dispatched
\* race: the hook is called while a mutation is pending (RaceSpec);
\* otherwise the page shows no toggle while isUpdating (UsersPage.tsx 111,
\* 165, UserActions.tsx 59-66)
MutateWithin(m, userId, status, race, budget) ==
    LET cancelled == CancelQueries(queries, AllKey)
        previousUsers == GetQueriesData(cancelled, AllKey)
        updated == SetQueriesData(cancelled, AllKey, userId, status)
        inFlight == [r \in RequestIds |->
                        IF requests[r].active /\ MatchesKey(AllKey, requests[r].key)
                        THEN [requests[r] EXCEPT !.dropped = TRUE]
                        ELSE requests[r]]
    IN /\ mutations[m].state = "idle"
       /\ \A i \in MutationIds : mutations[i].state = "idle" => m <= i
       /\ invoked < budget
       /\ race \/ \E i \in DOMAIN UsersWithActions :
                    /\ UsersWithActions[i].userId = userId
                    /\ ~ToggleDisabled(UsersWithActions[i])
       /\ \E i \in DOMAIN UsersWithActions :
            /\ UsersWithActions[i].userId = userId
            /\ ToggledStatus(UsersWithActions[i]) = status
       /\ invoked' = invoked + 1
       /\ queries' = updated
       /\ mutations' = [mutations EXCEPT ![m] =
              [state |-> "pending", userId |-> userId, status |-> status,
               previousUsers |-> previousUsers, applied |-> FALSE,
               older |-> Pending, overtaken |-> {}]]
       /\ requests' = Waited(updated, inFlight)
       /\ orphans' = orphans \cup Orphaned(updated, inFlight)
       /\ lastOp' = Op("onMutate", observed, m, "")
       /\ UNCHANGED <<db, observed>>
       /\ UNCHANGED pageVars

\* handleToggleStatus as the cache sees it, with the budget of the
\* specification; the dialog of the row is left out
Mutate(m, userId, status, race) ==
    /\ MutateWithin(m, userId, status, race, IF race THEN MaxRace ELSE MaxMutations)
    /\ UNCHANGED confirmDialogOpen

\* the row of a user in the table
Row(userId) ==
    UsersWithActions[CHOOSE i \in DOMAIN UsersWithActions :
                        UsersWithActions[i].userId = userId]

HasRow(userId) == \E i \in DOMAIN UsersWithActions : UsersWithActions[i].userId = userId

\* a toggle that calls onToggleStatus for an active user as for an inactive one
HandleToggleUnconfirmed(userId) ==
    /\ HasRow(userId)
    /\ ~ToggleDisabled(Row(userId))
    /\ confirmDialogOpen = {}
    /\ \E m \in MutationIds :
          MutateWithin(m, userId, ToggledStatus(Row(userId)), FALSE, MaxToggles)
    /\ UNCHANGED confirmDialogOpen

\* handleToggle (UserActions.tsx 40-48): the click on the toggle of a row;
\* an open dialog is modal, so no toggle is clicked behind it
HandleToggle(userId) ==
    /\ HasRow(userId)
    /\ ~ToggleDisabled(Row(userId))
    /\ confirmDialogOpen = {}
    /\ IF Row(userId).status = "active"
       THEN /\ confirmDialogOpen' = confirmDialogOpen \cup {userId}
            /\ lastOp' = Op("handleToggle", observed, 0, userId)
            /\ UNCHANGED cacheVars
            /\ UNCHANGED pageVars
       ELSE /\ \E m \in MutationIds : MutateWithin(m, userId, "active", FALSE, MaxToggles)
            /\ UNCHANGED confirmDialogOpen

\* handleConfirmDeactivate (UserActions.tsx 50-53), from the dialog of a row
\* that is rendered (UserActions.tsx 59-66, 108-139)
HandleConfirmDeactivate(userId) ==
    /\ userId \in confirmDialogOpen
    /\ HasRow(userId)
    /\ ~ToggleDisabled(Row(userId))
    /\ \E m \in MutationIds : MutateWithin(m, userId, "inactive", FALSE, MaxToggles)
    /\ confirmDialogOpen' = confirmDialogOpen \ {userId}

\* handleCancelDeactivate (UserActions.tsx 55-57): Cancel, or the dialog's
\* onClose
HandleCancelDeactivate(userId) ==
    /\ userId \in confirmDialogOpen
    /\ HasRow(userId)
    /\ ~ToggleDisabled(Row(userId))
    /\ confirmDialogOpen' = confirmDialogOpen \ {userId}
    /\ lastOp' = Op("handleCancelDeactivate", observed, 0, userId)
    /\ UNCHANGED cacheVars
    /\ UNCHANGED pageVars

\* the data source applies the write of mutation m
ServerApply(m) ==
    /\ mutations[m].state = "pending"
    /\ ~mutations[m].applied
    /\ db' = [db EXCEPT ![mutations[m].userId] = mutations[m].status]
    /\ mutations' = [mutations EXCEPT ![m].applied = TRUE]
    /\ lastOp' = Op("serverApply", observed, m, "")
    /\ UNCHANGED <<queries, observed, requests, orphans, invoked>>
    /\ UNCHANGED viewVars

\* the mutations after m has settled; ok: m succeeded
Settled(m, ok) ==
    [i \in MutationIds |->
        IF i = m THEN NoMutation
        ELSE [mutations[i] EXCEPT
                 !.older = @ \ {m},
                 !.overtaken = IF ok /\ i \in mutations[m].older
                               THEN @ \cup {<<mutations[m].userId, mutations[m].status>>}
                               ELSE @]]

\* updateUserStatus resolves: onSettled (useUsers.ts 71-73)
MutationSuccess(m) ==
    /\ mutations[m].state = "pending"
    /\ mutations[m].applied
    /\ queries' = InvalidateQueries(queries, observed, RefetchId(queries, observed))
    /\ requests' = Waited(queries', RefetchRequests(queries, observed))
    /\ orphans' = orphans \cup Superseded(queries, observed)
                           \cup Orphaned(queries', RefetchRequests(queries, observed))
    /\ mutations' = Settled(m, TRUE)
    /\ lastOp' = Op("onSuccess", observed, m, "")
    /\ UNCHANGED <<db, observed, invoked>>
    /\ UNCHANGED viewVars

\* updateUserStatus rejects: onError (useUsers.ts 61-68), then onSettled
MutationError(m) ==
    LET restored == Rollback(queries, mutations[m].previousUsers)
    IN /\ mutations[m].state = "pending"
       /\ ~mutations[m].applied
       /\ queries' = InvalidateQueries(restored, observed, RefetchId(restored, observed))
       /\ requests' = Waited(queries', RefetchRequests(restored, observed))
       /\ orphans' = orphans \cup Superseded(restored, observed)
                              \cup Orphaned(queries', RefetchRequests(restored, observed))
       /\ mutations' = Settled(m, FALSE)
       /\ lastOp' = Op("onError", observed, m,
                       IF \E k \in Keys : /\ mutations[m].previousUsers[k].present
                                          /\ ~IsDefined(mutations[m].previousUsers[k].data)
                                          /\ IsDefined(queries[k].data)
                       THEN "kept" ELSE "")
       /\ UNCHANGED <<db, observed, invoked>>
       /\ UNCHANGED viewVars

\* the page: one status mutation at a time
Next ==
    \/ \E k \in Keys, stale \in BOOLEAN : UseUsers(k, stale)
    \/ \E r \in RequestIds : FetchResolve(r)
    \/ \E r \in RequestIds : FetchReject(r)
    \/ \E k \in Keys : OrphanResolve(k)
    \/ \E k \in Keys : OrphanReject(k)
    \/ \E m \in MutationIds, u \in UserIds, s \in Statuses : Mutate(m, u, s, FALSE)
    \/ \E m \in MutationIds : ServerApply(m)
    \/ \E m \in MutationIds : MutationSuccess(m)
    \/ \E m \in MutationIds : MutationError(m)

Spec == Init /\ [][Next]_vars

\* the hook called again while a mutation is pending, answers computed
\* before they arrive
RaceNext ==
    \/ \E k \in Keys : UseUsers(k, FALSE)
    \/ \E r \in RequestIds : ServerRead(r)
    \/ \E r \in RequestIds : FetchResolve(r)
    \/ \E k \in Keys : OrphanResolve(k)
    \/ \E m \in MutationIds, u \in UserIds, s \in Statuses : Mutate(m, u, s, TRUE)
    \/ \E m \in MutationIds : ServerApply(m)
    \/ \E m \in MutationIds : MutationSuccess(m)
    \/ \E m \in MutationIds : MutationError(m)

RaceSpec == Init /\ [][RaceNext]_vars

\* the rows' controls: the toggles and the confirmation dialogs drive the
\* status mutations
ActionsNext ==
    \/ \E r \in RequestIds : FetchResolve(r)
    \/ \E k \in Keys : OrphanResolve(k)
    \/ \E u \in UserIds : HandleToggle(u)
    \/ \E u \in UserIds : HandleConfirmDeactivate(u)
    \/ \E u \in UserIds : HandleCancelDeactivate(u)
    \/ \E m \in MutationIds : ServerApply(m)
    \/ \E m \in MutationIds : MutationSuccess(m)
    \/ \E m \in MutationIds : MutationError(m)

ActionsSpec == Init /\ [][ActionsNext]_vars

\* ------------------------------------------------------- the view handlers

\* a URL sync that merges the params into the mapping it finds
SyncUrlMerge(v) ==
    searchParams' = [name \in DOMAIN searchParams |->
                        IF IsDefined(Encode(v)[name]) THEN Encode(v)[name]
                        ELSE searchParams[name]]

\* the URL sync effect (UsersPage.tsx 88-108) after a render with state v
SyncUrl(v) == searchParams' = Encode(v)

\* a render with state v after handler op: the state, the URL and the read
Render(op, v) ==
    /\ searchQuery' = v.searchQuery
    /\ debouncedSearchQuery' = v.debouncedSearchQuery
    /\ statusFilter' = v.statusFilter
    /\ pagination' = v.pagination
    /\ sorting' = v.sorting
    /\ columnVisibility' = v.columnVisibility
    /\ SyncUrl(v)
    /\ lastOp' = Op(op, QueryKey(v), 0, "")
    /\ UNCHANGED cacheVars
    /\ UNCHANGED <<cell, boundary, confirmDialogOpen>>

\* a search handler whose text reaches the debounced value with the keystroke
HandleSearchChangeUndebounced(value) ==
    /\ timer' = (timer \/ value # searchQuery)
    /\ Render("handleSearchChange",
              [CurrentView EXCEPT !.searchQuery = value, !.debouncedSearchQuery = value,
                                  !.pagination.pageIndex = Num(0)])
    /\ UNCHANGED localStorage

\* handleSearchChange (UsersPage.tsx 130-134): the text, the first page, and
\* useDebounce schedules the emission of a new text
HandleSearchChange(value) ==
    /\ timer' = (timer \/ value # searchQuery)
    /\ Render("handleSearchChange",
              [CurrentView EXCEPT !.searchQuery = value, !.pagination.pageIndex = Num(0)])
    /\ UNCHANGED localStorage

\* the quiet interval of useDebounce has elapsed (UsersPage.tsx 77)
DebounceElapsed ==
    /\ timer
    /\ timer' = FALSE
    /\ Render("useDebounce", [CurrentView EXCEPT !.debouncedSearchQuery = searchQuery])
    /\ UNCHANGED localStorage

\* handleStatusFilterChange (UsersPage.tsx 137-140)
HandleStatusFilterChange(value) ==
    /\ Render("handleStatusFilterChange",
              [CurrentView EXCEPT !.statusFilter = value, !.pagination.pageIndex = Num(0)])
    /\ UNCHANGED <<timer, localStorage>>

\* handlePaginationChange (UsersPage.tsx 143-145) with the pagination the
\* grid computed (DynamicGrid.tsx 144-148)
HandlePaginationChange(newPagination) ==
    /\ Render("handlePaginationChange", [CurrentView EXCEPT !.pagination = newPagination])
    /\ UNCHANGED <<timer, localStorage>>

\* a sort change of a table that resets its page index with its sorting
SetSortingResetsPage(newSorting) ==
    /\ Render("setSorting",
              [CurrentView EXCEPT !.sorting = newSorting, !.pagination.pageIndex = Num(0)])
    /\ UNCHANGED <<timer, localStorage>>

\* setSorting through onSortingChange (UsersPage.tsx 251, DynamicGrid.tsx 149-155)
SetSorting(newSorting) ==
    /\ Render("setSorting", [CurrentView EXCEPT !.sorting = newSorting])
    /\ UNCHANGED <<timer, localStorage>>

\* setValue of useLocalStorage (UsersPage.tsx 283-290): the state, then the
\* item; fails: setItem raises (the quota is used up, or access is denied)
SetValue(value, fails) ==
    localStorage' = IF fails \/ localStorage.denied THEN localStorage
                    ELSE Store(FALSE, Some(JsonStringify(value)))

\* setColumnVisibility through onColumnVisibilityChange (UsersPage.tsx 253,
\* DynamicGrid.tsx 156-162)
SetColumnVisibility(newVisibility, fails) ==
    /\ Render("setColumnVisibility", [CurrentView EXCEPT !.columnVisibility = newVisibility])
    /\ SetValue(newVisibility, fails)
    /\ UNCHANGED timer

ViewSpecInit ==
    /\ CacheMounted
    /\ \E url \in InitialUrls, hidden \in SUBSET ColumnKeys :
          /\ ViewInit(url, Stored(hidden))
          /\ lastOp = Op("mount", QueryKey(Decode(url, hidden)), 0, "")

ViewNext ==
    \/ \E value \in SearchTexts : HandleSearchChange(value)
    \/ DebounceElapsed
    \/ \E value \in StatusFilters : HandleStatusFilterChange(value)
    \/ \E newPagination \in Paginations : HandlePaginationChange(newPagination)
    \/ \E newSorting \in Sortings : SetSorting(newSorting)
    \/ \E newVisibility \in SUBSET ColumnKeys : SetColumnVisibility(newVisibility, FALSE)

ViewSpec == ViewSpecInit /\ [][ViewNext]_vars

\* the search field, the status filter and the pager with time passing: a
\* timer that stays scheduled runs out and the event loop runs its callback
\* (UsersPage.tsx 77)
ViewFairNext ==
    \/ \E value \in SearchTexts : HandleSearchChange(value)
    \/ DebounceElapsed
    \/ \E value \in StatusFilters : HandleStatusFilterChange(value)
    \/ \E newPagination \in Paginations : HandlePaginationChange(newPagination)

ViewFairSpec == ViewSpecInit /\ [][ViewFairNext]_vars /\ WF_vars(DebounceElapsed)

\* the page mounted on a URL without parameters in a browser with any store;
\* then the column visibility, the sorting and the status filter change
StorageInit ==
    /\ CacheMounted
    /\ \E store \in Stores :
          /\ ViewInit(EmptyUrl, store)
          /\ lastOp = Op("mount",
                         QueryKey(Decode(EmptyUrl, UseLocalStorageInit(store, {}).value)),
                         0, "")

StorageNext ==
    \/ \E newVisibility \in SUBSET ColumnKeys, fails \in BOOLEAN :
          SetColumnVisibility(newVisibility, fails)
    \/ \E newSorting \in Sortings : SetSorting(newSorting)
    \/ \E value \in StatusFilters : HandleStatusFilterChange(value)

StorageSpec == StorageInit /\ [][StorageNext]_vars

\* ------------------------------------------------------ the error boundary

\* the errors a render of the children throws
Errors == {"TypeError", "RangeError"}

\* ErrorBoundary.render (part_001 73-161): the fallback when hasError, the
\* children otherwise
BoundaryRender == IF boundary.hasError THEN "fallback" ELSE "children"

\* a render of the children throws error: getDerivedStateFromError
\* (part_001 42-49); the fallback replaces the children
ChildThrows(error) ==
    /\ BoundaryRender = "children"
    /\ boundary' = Derived(error)
    /\ lastOp' = Op("getDerivedStateFromError", lastOp.key, 0, error)
    /\ UNCHANGED cacheVars
    /\ UNCHANGED <<searchParams, searchQuery, debouncedSearchQuery, timer, statusFilter,
                   pagination, sorting, columnVisibility, cell, localStorage,
                   confirmDialogOpen>>

\* componentDidCatch (part_001 51-59), in the commit that follows
\* getDerivedStateFromError: error and errorInfo are stored
ComponentDidCatch ==
    /\ boundary.hasError
    /\ boundary.errorInfo = Undefined
    /\ boundary' = [boundary EXCEPT !.error = boundary.error, !.errorInfo = Some("stack")]
    /\ lastOp' = Op("componentDidCatch", lastOp.key, 0, Get(boundary.error))
    /\ UNCHANGED cacheVars
    /\ UNCHANGED <<searchParams, searchQuery, debouncedSearchQuery, timer, statusFilter,
                   pagination, sorting, columnVisibility, cell, localStorage,
                   confirmDialogOpen>>

\* the children mount again after op: the hooks of the page are initialised
\* from the URL and the store, as at the first mount
Remount(op) ==
    LET v == Decode(searchParams, UseLocalStorageInit(localStorage, {}).value)
    IN /\ searchQuery' = v.searchQuery
       /\ debouncedSearchQuery' = v.debouncedSearchQuery
       /\ timer' = FALSE
       /\ statusFilter' = v.statusFilter
       /\ pagination' = v.pagination
       /\ sorting' = v.sorting
       /\ columnVisibility' = v.columnVisibility
       /\ SyncUrl(v)
       /\ cell' = NoCell
       /\ confirmDialogOpen' = {}
       /\ lastOp' = Op(op, QueryKey(v), 0, "")
       /\ UNCHANGED cacheVars
       /\ UNCHANGED localStorage

\* a reset that clears the flag and keeps the error it caught
HandleResetKeepsError ==
    /\ BoundaryRender = "fallback"
    /\ boundary.errorInfo # Undefined
    /\ boundary' = [boundary EXCEPT !.hasError = FALSE]
    /\ Remount("handleReset")

\* handleReset (part_001 61-67), the onClick of Try Again in the fallback
\* (part_001 139-145): the three fields are cleared and the children render
HandleReset ==
    /\ BoundaryRender = "fallback"
    /\ boundary.errorInfo # Undefined
    /\ boundary' = NoError
    /\ Remount("handleReset")

\* the page inside the boundary: its handlers run while it is rendered
BoundaryNext ==
    \/ /\ BoundaryRender = "children"
       /\ StorageNext
    \/ \E error \in Errors : ChildThrows(error)
    \/ ComponentDidCatch
    \/ HandleReset

BoundarySpec == StorageInit /\ [][BoundaryNext]_vars

\* the Cell of a column renders a value (DynamicGrid.tsx 120-123)
RenderCell(value, columnMeta) ==
    /\ cell' = [value |-> value, columnMeta |-> columnMeta,
                result |-> RenderCellByType(value, columnMeta)]
    /\ lastOp' = Op("renderCellByType", lastOp.key, 0, columnMeta.type)
    /\ UNCHANGED cacheVars
    /\ UNCHANGED <<searchParams, searchQuery, debouncedSearchQuery, timer, statusFilter,
                   pagination, sorting, columnVisibility, localStorage, boundary,
                   confirmDialogOpen>>

GridNext ==
    \E value \in CellValues, type \in ColumnTypes : RenderCell(value, [type |-> type])

GridSpec == Init /\ [][GridNext]_vars

\* ------------------------------------------------------- properties

\* the value of a defined entry
Value(e) == Get(e.data).data

\* the record of user u in the entry e shows status s
Shows(e, u, s) ==
    /\ IsDefined(e.data)
    /\ \E i \in DOMAIN Value(e).users :
         /\ Value(e).users[i].userId = u
         /\ Value(e).users[i].status = s

\* C1: onMutate for (userId, status) leaves every entry of the family with
\* the same records in the same order and the same totalCount; the record of
\* userId carries the new status, every other record and every other field
\* is as before; entries without data stay without data.
C1OptimisticFrame ==
    [][\A m \in MutationIds :
         (lastOp'.op = "onMutate" /\ lastOp'.m = m) =>
            \A k \in Family :
               /\ queries'[k].exists = queries[k].exists
               /\ IsDefined(queries'[k].data) = IsDefined(queries[k].data)
               /\ IsDefined(queries[k].data) =>
                    /\ Value(queries'[k]).totalCount = Value(queries[k]).totalCount
                    /\ Len(Value(queries'[k]).users) = Len(Value(queries[k]).users)
                    /\ \A i \in DOMAIN Value(queries[k]).users :
                         LET old == Value(queries[k]).users[i]
                             new == Value(queries'[k]).users[i]
                         IN /\ new.userId = old.userId
                            /\ new.name = old.name
                            /\ new.status = IF old.userId = mutations'[m].userId
                                            THEN mutations'[m].status
                                            ELSE old.status]_vars

\* onMutate has just run with both entries cached: the record of its user
\* shows the new status, which the data source does not have yet, next to a
\* record of another status
C1Witness ==
    /\ lastOp.op = "onMutate"
    /\ \A k \in Family : IsDefined(queries[k].data)
    /\ \A k \in Family :
         /\ Shows(queries[k], mutations[lastOp.m].userId, mutations[lastOp.m].status)
         /\ \E u \in UserIds : \E s \in Statuses :
              s # mutations[lastOp.m].status /\ Shows(queries[k], u, s)
    /\ db[mutations[lastOp.m].userId] # mutations[lastOp.m].status

\* C2 as stated: onError leaves every entry of the snapshot with exactly the
\* captured value.
C2RestoresEveryEntry ==
    [][\A m \in MutationIds :
         (lastOp'.op = "onError" /\ lastOp'.m = m) =>
            \A k \in Family :
               mutations[m].previousUsers[k].present =>
                  queries'[k].data = mutations[m].previousUsers[k].data]_vars

\* C2: onError replaces every entry that was captured with data by exactly
\* the captured value; an entry captured without data, and an entry created
\* after the capture, keeps what it holds; then every entry of the family is
\* flagged invalidated and the observed one is fetching, as on success.
C2RestoresCapturedData ==
    [][\A m \in MutationIds :
         (lastOp'.op = "onError" /\ lastOp'.m = m) =>
            \A k \in Family :
               /\ queries'[k].data =
                     IF /\ mutations[m].previousUsers[k].present
                        /\ IsDefined(mutations[m].previousUsers[k].data)
                     THEN mutations[m].previousUsers[k].data
                     ELSE queries[k].data
               /\ queries'[k].exists => queries'[k].isInvalidated
               /\ k = observed => queries'[k].retryer # 0]_vars

\* onError has just run: both entries hold data, one of them captured
\* without data and fetched since; every entry is back on the data source's
\* values and flagged
C2Witness ==
    /\ lastOp.op = "onError"
    /\ lastOp.note = "kept"
    /\ \A k \in Family :
         /\ IsDefined(queries[k].data)
         /\ Get(queries[k].data) = FetchUsers(db, k)
         /\ queries[k].isInvalidated

C4RollbackKeepsLaterWrite ==
    [][\A m \in MutationIds :
         (lastOp'.op = "onError" /\ lastOp'.m = m) =>
            \A w \in mutations[m].overtaken : \A k \in Family :
               Shows(queries[k], w[1], w[2]) => Shows(queries'[k], w[1], w[2])]_vars

\* C5 as stated, entries flagged for a refetch allowed: once a mutation has
\* been invoked, all mutations have settled and no fetch is in flight, every
\* entry that is not flagged holds the data source's values.
Quiescent ==
    /\ invoked > 0
    /\ Pending = {}
    /\ orphans = {}
    /\ \A r \in RequestIds : ~requests[r].active

C5QuiescentConsistent ==
    Quiescent =>
        \A k \in Family :
            (IsDefined(queries[k].data) /\ ~queries[k].isInvalidated) =>
                Get(queries[k].data) = FetchUsers(db, k)

\* C6: when a fetch that a mutation cancelled, or that a newer fetch of its
\* key superseded, completes, the cache is what it was.
C6DroppedNeverWrites ==
    [][(lastOp'.op \in {"fetchResolve", "fetchReject"} /\ lastOp'.note = "dropped") =>
          queries' = queries]_vars

\* a cancelled fetch has resolved while the mutation is pending: the entry
\* still shows the optimistic status, which the answer did not carry
C6Witness ==
    /\ lastOp.op = "fetchResolve"
    /\ lastOp.note = "dropped"
    /\ Pending # {}
    /\ IsDefined(queries[lastOp.key].data)
    /\ Get(queries[lastOp.key].data) # FetchUsers(db, lastOp.key)

\* the fetches of key k that a query waits for
Waiting(reqs, k) == {r \in RequestIds : reqs[r].active /\ reqs[r].key = k /\ ~reqs[r].dropped}

\* C7: a read of a key whose fetch is in flight starts no fetch and leaves
\* the cache alone; no key has two fetches that a query waits for; the
\* result of the one fetch is the data of the entry both readers observe.
C7OneFetchPerKey ==
    [][/\ (lastOp'.op = "useUsers" /\ queries[observed'].exists
                                   /\ queries[observed'].retryer # 0) =>
            /\ requests' = requests
            /\ orphans' = orphans
            /\ queries' = queries
       /\ \A k \in Keys : Cardinality(Waiting(requests', k)) <= 1
       /\ \A r \in RequestIds :
            (lastOp'.op = "fetchResolve" /\ lastOp'.note = "live"
                /\ requests[r].active /\ ~requests'[r].active) =>
               /\ queries'[requests[r].key].data = Response(r)
               /\ queries'[requests[r].key].retryer = 0]_vars

\* a second read of the observed key has joined the one fetch in flight
C7Witness ==
    /\ lastOp.op = "useUsers"
    /\ lastOp.note = "join"
    /\ queries[observed].retryer # 0
    /\ Cardinality(Waiting(requests, observed)) = 1
    /\ observed \notin orphans

\* the view states next to view state v: any of the fields replaced
Variants(v) ==
    {View(v.searchQuery, debounced, status, [pageIndex |-> index, pageSize |-> size],
          sort, hidden) :
        debounced \in SearchTexts,
        status \in StatusFilters,
        index \in {v.pagination.pageIndex, Add(v.pagination.pageIndex, 1)},
        size \in PageSizes,
        sort \in {v.sorting, <<>>, <<[id |-> "name", desc |-> TRUE]>>},
        hidden \in SUBSET ColumnKeys}

\* C8 as stated: two view states have the same key exactly when they agree
\* on the debounced search text, the status filter, the page index, the page
\* size and the sort.
C8KeyCoversSort ==
    \A w \in Variants(CurrentView) :
        (QueryKey(w) = QueryKey(CurrentView)) <=>
            /\ w.debouncedSearchQuery = debouncedSearchQuery
            /\ w.statusFilter = statusFilter
            /\ w.pagination = pagination
            /\ w.sorting = sorting

\* C8: two view states have the same key exactly when they agree on the
\* debounced search text, the status filter, the page index and the page
\* size; the sort and the column visibility are not part of the key.
C8KeyFields ==
    \A w \in Variants(CurrentView) :
        (QueryKey(w) = QueryKey(CurrentView)) <=>
            /\ w.debouncedSearchQuery = debouncedSearchQuery
            /\ w.statusFilter = statusFilter
            /\ w.pagination = pagination

\* the sort has just changed on a filtered, searched, later page with a
\* hidden column: the read keeps the key it had
C8Witness ==
    /\ lastOp.op = "setSorting"
    /\ lastOp.key = QueryKey(CurrentView)
    /\ sorting # <<>>
    /\ columnVisibility # {}
    /\ statusFilter = "inactive"
    /\ debouncedSearchQuery = "a"
    /\ pagination.pageIndex = Num(1)
    /\ \E w \in Variants(CurrentView) :
          w.sorting # sorting /\ QueryKey(w) = QueryKey(CurrentView)

\* C9 as stated: a step that changes the status filter or the debounced
\* search text leaves the page index at 0, so that the read of the next render
\* never combines the new value with a later page.
C9FilterResetsPage ==
    [][(statusFilter' # statusFilter \/ debouncedSearchQuery' # debouncedSearchQuery) =>
          pagination'.pageIndex = Num(0)]_vars

\* the first entry of the sorting state, the one the URL carries
PrimarySort(sort) == IF sort = <<>> THEN <<>> ELSE <<sort[1]>>

\* C10: the URL holds the parameters of the current view state, and the
\* startup initialisation applied to them gives back its page index, status
\* filter, debounced search text and primary sort with its direction.
C10RoundTrip ==
    /\ searchParams = Encode(CurrentView)
    /\ Decode(searchParams, columnVisibility).pagination.pageIndex = pagination.pageIndex
    /\ Decode(searchParams, columnVisibility).statusFilter = statusFilter
    /\ Decode(searchParams, columnVisibility).debouncedSearchQuery = debouncedSearchQuery
    /\ Decode(searchParams, columnVisibility).sorting = PrimarySort(sorting)

\* the URL of a view state with a two-digit page, a status filter, a search
\* text and a descending sort
C10Witness ==
    /\ Len(Get(searchParams.page)) = 2
    /\ pagination.pageIndex = Num(MaxPageIndex)
    /\ searchParams.status = Some("inactive")
    /\ searchParams.search = Some("ab")
    /\ searchParams.sort = Some("email")
    /\ searchParams.order = Some("desc")
    /\ lastOp.op = "useDebounce"

\* C11: the URL holds page = pageIndex + 1 always, status exactly when the
\* status filter is not "all", search exactly when the debounced text is not
\* empty, sort and order exactly when a sort is applied, order being "desc"
\* or "asc"; nothing of the mapping it replaced is left.
C11UrlContents ==
    /\ DOMAIN searchParams = {"page", "status", "search", "sort", "order"}
    /\ searchParams.page = Some(ToStr(Add(pagination.pageIndex, 1)))
    /\ IsDefined(searchParams.status) <=> statusFilter # "all"
    /\ IsDefined(searchParams.status) => Get(searchParams.status) = statusFilter
    /\ IsDefined(searchParams.search) <=> debouncedSearchQuery # ""
    /\ IsDefined(searchParams.search) => Get(searchParams.search) = debouncedSearchQuery
    /\ IsDefined(searchParams.sort) <=> sorting # <<>>
    /\ IsDefined(searchParams.order) <=> sorting # <<>>
    /\ sorting # <<>> =>
         /\ Get(searchParams.sort) = sorting[1].id
         /\ Get(searchParams.order) = (IF sorting[1].desc THEN "desc" ELSE "asc")
         /\ Get(searchParams.order) \in {"desc", "asc"}

\* the sort has just been removed while the status filter is "all" and the
\* search is empty: the URL holds the page alone
C11Witness ==
    /\ lastOp.op = "setSorting"
    /\ sorting = <<>>
    /\ statusFilter = "all"
    /\ debouncedSearchQuery = ""
    /\ pagination.pageIndex = Num(1)
    /\ searchParams = Params(Some(<<"2">>), Undefined, Undefined, Undefined, Undefined)

\* the search text the URL shows; "" when it has no search
UrlSearch(url) == IF IsDefined(url.search) THEN Get(url.search) ELSE ""

\* C12: the search of the URL changes only when the quiet interval of the
\* debounce elapses, and what it shows after any step is the debounced text:
\* while a typed text waits for the interval, a URL rewrite for a page, status
\* or sort change does not carry it.
C12UrlSearchDebounced ==
    [][/\ UrlSearch(searchParams') # UrlSearch(searchParams) => lastOp'.op = "useDebounce"
       /\ UrlSearch(searchParams') = debouncedSearchQuery'
       /\ (timer' /\ searchQuery' # debouncedSearchQuery') =>
             UrlSearch(searchParams') # searchQuery']_vars

\* the page has changed during the quiet interval after "ab" was typed over
\* "a": the URL was rewritten with the new page and still shows "a"
C12Witness ==
    /\ lastOp.op = "handlePaginationChange"
    /\ timer
    /\ searchQuery = "ab"
    /\ debouncedSearchQuery = "a"
    /\ pagination.pageIndex = Num(1)
    /\ searchParams.page = Some(<<"2">>)
    /\ searchParams.search = Some("a")

\* C13: when the page has mounted on a URL, a key that is absent from it has
\* its default: no page gives pageIndex 0, no status gives "all", no search
\* gives the empty text in the field and in the debounced value, no sort gives
\* no sorting, whatever the order key holds.
C13AbsentKeysDefault ==
    lastOp.op = "mount" =>
        \A url \in InitialUrls : \A hidden \in SUBSET ColumnKeys :
            CurrentView = Decode(url, hidden) =>
                /\ ~IsDefined(url.page) => pagination.pageIndex = Num(0)
                /\ ~IsDefined(url.status) => statusFilter = "all"
                /\ ~IsDefined(url.search) =>
                      /\ searchQuery = ""
                      /\ debouncedSearchQuery = ""
                /\ ~IsDefined(url.sort) => sorting = <<>>

\* the page has mounted on a URL without parameters: every field has its
\* default and the URL holds page 1 alone
C13Witness ==
    /\ lastOp.op = "mount"
    /\ CurrentView = Decode(EmptyUrl, {})
    /\ pagination = [pageIndex |-> Num(0), pageSize |-> DefaultPageSize]
    /\ statusFilter = "all"
    /\ searchQuery = ""
    /\ sorting = <<>>
    /\ \E url \in InitialUrls :
          /\ ~IsDefined(url.sort)
          /\ IsDefined(url.order)
          /\ Decode(url, {}).sorting = <<>>

\* C14 as stated: in every state pageIndex is an integer that is not
\* negative, pageSize is positive and the status filter is one of "all",
\* "active", "inactive".
C14ViewParamsValid ==
    /\ ~pagination.pageIndex.nan
    /\ pagination.pageIndex.n >= 0
    /\ pagination.pageSize > 0
    /\ statusFilter \in StatusFilters

\* C15: a change of the sorting or of the column visibility leaves the page
\* index, the page size, the search text, the debounced text and the status
\* filter as they were.
C15SortKeepsPage ==
    [][lastOp'.op \in {"setSorting", "setColumnVisibility"} =>
          /\ pagination' = pagination
          /\ searchQuery' = searchQuery
          /\ debouncedSearchQuery' = debouncedSearchQuery
          /\ statusFilter' = statusFilter]_vars

\* the sorting has just changed on a later page of a filtered, searched list
C15Witness ==
    /\ lastOp.op = "setSorting"
    /\ sorting # <<>>
    /\ ~pagination.pageIndex.nan /\ pagination.pageIndex.n > 0
    /\ statusFilter = "active"
    /\ searchQuery = "ab"

C17KeystrokeDerivesNoFetch ==
    [][lastOp'.op = "handleSearchChange" => lastOp'.key = lastOp.key]_vars

\* C18 as stated: the toggle of a row is disabled exactly while a status
\* write for the user of that row is pending: the row of the pending write is
\* disabled, and a row whose user has no pending write is not.
C18PendingFlagPerRecord ==
    \A i \in DOMAIN UsersWithActions :
        ToggleDisabled(UsersWithActions[i]) <=>
            \E m \in Pending : mutations[m].userId = UsersWithActions[i].userId

\* C19 as stated: renderCellByType returns a render result or a placeholder
\* for every column type and every value of a cell; it never raises.
C19ResolverTotal ==
    cell.result.node # "TypeError"

\* C20: a chiplist cell that holds a sequence of groups renders one chip per
\* group, in order, with the groupId as key and the groupName as label; one
\* that holds no sequence or an empty one renders "No groups"; no chiplist
\* cell renders the text of its value.
C20ChiplistTags ==
    cell.columnMeta.type = "chiplist" =>
        /\ cell.result.node # "text"
        /\ cell.value \in {JsNull, JsUndefined, JsArray(<<>>)} => cell.result = NoGroups
        /\ (/\ cell.value.t = "array"
            /\ cell.value.items # <<>>
            /\ \A i \in DOMAIN cell.value.items : cell.value.items[i] \in Groups) =>
              /\ cell.result.node = "Box"
              /\ Len(cell.result.children) = Len(cell.value.items)
              /\ \A i \in DOMAIN cell.value.items :
                    /\ cell.result.children[i].node = "Chip"
                    /\ cell.result.children[i].key = cell.value.items[i].groupId
                    /\ cell.result.children[i].label = cell.value.items[i].groupName

\* a chiplist cell with two groups has rendered its two chips
C20Witness ==
    /\ cell.columnMeta.type = "chiplist"
    /\ cell.value = JsArray(<<Group("g2", "Editors"), Group("g1", "Admins")>>)
    /\ cell.result.node = "Box"
    /\ Len(cell.result.children) = 2

\* C21: when the read of the stored column visibility fails at the mount (the
\* store refuses access, or the item is no JSON text), the page has mounted
\* with every column visible and its other state as for any mount, and the
\* error boundary has caught nothing.
C21ReadFailureFallsBack ==
    (lastOp.op = "mount" /\ ReadFails(localStorage)) =>
        /\ columnVisibility = {}
        /\ CurrentView = Decode(EmptyUrl, {})
        /\ ~boundary.hasError

\* the page has mounted over an item that is cut short
C21Witness ==
    /\ lastOp.op = "mount"
    /\ localStorage = Store(FALSE, Some(<<"{", "email">>))
    /\ ReadFails(localStorage)
    /\ columnVisibility = {}

\* C26 as stated: after a change of the column visibility the item in the
\* store is the JSON text of the column visibility the page holds, also when
\* the write to the store has failed.
C26StoreMatchesMemory ==
    lastOp.op = "setColumnVisibility" =>
        /\ IsDefined(localStorage.item)
        /\ JsonParse(Get(localStorage.item)) = [ok |-> TRUE, value |-> columnVisibility]

\* C22: a list fetch that fails writes no data: the entry of its key keeps
\* the data it had, or none, and every other entry is as before; when the
\* failed fetch is the one its query waits for, the query is in the error
\* state, and the page that observes it shows the error view with its retry
\* action.
C22FailedFetchKeepsCache ==
    [][lastOp'.op = "fetchReject" =>
          /\ \A k \in Keys :
                /\ queries'[k].data = queries[k].data
                /\ queries'[k].exists = queries[k].exists
                /\ k # lastOp'.key => queries'[k] = queries[k]
          /\ lastOp'.note = "live" =>
                /\ queries'[lastOp'.key].status = "error"
                /\ queries'[lastOp'.key].retryer = 0
                /\ observed' = lastOp'.key =>
                      PageView' = [shows |-> "ErrorFallback", onRetry |-> "reload"]]_vars

\* the refetch of an entry with data has failed: the data is kept, the page
\* shows the error view
C22Witness ==
    /\ lastOp.op = "fetchReject"
    /\ lastOp.note = "live"
    /\ observed = lastOp.key
    /\ IsDefined(queries[lastOp.key].data)
    /\ queries[lastOp.key].status = "error"
    /\ PageView.shows = "ErrorFallback"

C23DeactivationConfirmed ==
    [][/\ \A m \in MutationIds :
            (lastOp'.op = "onMutate" /\ lastOp'.m = m) =>
                LET u == mutations'[m].userId
                IN IF mutations'[m].status = "inactive"
                   THEN /\ u \in confirmDialogOpen
                        /\ confirmDialogOpen' = confirmDialogOpen \ {u}
                   ELSE /\ Row(u).status = "inactive"
                        /\ confirmDialogOpen = {}
                        /\ confirmDialogOpen' = {}
       /\ ~(confirmDialogOpen' \subseteq confirmDialogOpen) =>
            /\ lastOp'.op = "handleToggle"
            /\ confirmDialogOpen' = confirmDialogOpen \cup {lastOp'.note}
            /\ Row(lastOp'.note).status = "active"
       /\ lastOp'.op \in {"handleToggle", "handleCancelDeactivate"} =>
            /\ queries' = queries
            /\ mutations' = mutations
            /\ invoked' = invoked
            /\ requests' = requests
       /\ lastOp'.op = "handleCancelDeactivate" =>
            confirmDialogOpen' = confirmDialogOpen \ {lastOp'.note}]_vars

\* the deactivation of u1 has been confirmed: its write is pending and the
\* dialog is closed
C23Witness ==
    /\ lastOp.op = "onMutate"
    /\ mutations[lastOp.m].state = "pending"
    /\ mutations[lastOp.m].userId = "u1"
    /\ mutations[lastOp.m].status = "inactive"
    /\ confirmDialogOpen = {}

\* C25: at most one status mutation is pending at any time, and while one is
\* pending every row shows the progress indicator in place of its toggle.
C25OneMutationInFlight ==
    /\ Cardinality(Pending) <= 1
    /\ Pending # {} => \A i \in DOMAIN UsersWithActions : ToggleDisabled(UsersWithActions[i])

\* a second status mutation is pending, invoked after the first had settled
C25Witness ==
    /\ invoked = 2
    /\ Cardinality(Pending) = 1
    /\ UsersWithActions # <<>>

\* C27: while the boundary holds a caught error it renders the fallback, and
\* it keeps holding it through every step but handleReset; handleReset leaves
\* hasError false and error and errorInfo null, and the children rendered;
\* while it holds no error it renders the children, and only an error thrown
\* by a render of the children changes that.
C27FallbackUntilReset ==
    [][/\ BoundaryRender = (IF boundary.hasError THEN "fallback" ELSE "children")
       /\ (boundary.hasError /\ lastOp'.op # "handleReset") =>
            /\ boundary'.hasError
            /\ BoundaryRender' = "fallback"
            /\ boundary'.error = boundary.error
       /\ lastOp'.op = "handleReset" =>
            /\ boundary.hasError
            /\ boundary' = [hasError |-> FALSE, error |-> Undefined, errorInfo |-> Undefined]
            /\ BoundaryRender' = "children"
       /\ (~boundary.hasError /\ lastOp'.op # "getDerivedStateFromError") =>
            /\ boundary' = boundary
            /\ BoundaryRender' = "children"
       /\ ~boundary.hasError =>
            /\ boundary.error = Undefined
            /\ boundary.errorInfo = Undefined]_vars

\* Try Again has been clicked on the fallback of a caught error: the children
\* are rendered and nothing of the error is left
C27Witness ==
    /\ lastOp.op = "handleReset"
    /\ BoundaryRender = "children"
    /\ boundary.error = Undefined

====
